---- MODULE Spec2Model ----
(***************************************************************************)
(* Pairwise test case generator: the pair-space builder, the greedy and    *)
(* the exact (CP-SAT) solver, the coverage analyzer (algo.py,              *)
(* greedyalgo.py) and the Streamlit session handlers (main.py).            *)
(*                                                                         *)
(* A parameter map (a Python dict, insertion ordered) is a sequence of     *)
(* entries [name, values]; an assignment is <<name, value>>; a pair is     *)
(* <<assignment, assignment>>; a candidate (test case) is a tuple of       *)
(* values in the dict's key order.                                         *)
(***************************************************************************)
EXTENDS Integers, Sequences, FiniteSets, TLC

(* ------------------------------ bounds --------------------------------- *)
\* parameters per map in the solver specifications
MaxParams == 3
\* values per domain in the solver specifications
MaxDom == 2
\* candidates (tuples of the product of the domains) per map
MaxCandidates == 8
\* parameters of a map that has a domain that is no list
MaxNonListParams == 2
\* candidates per map and length of the suites handed directly to
\* count_unique_pairs
MaxAnalyzedCandidates == 4
MaxSuiteLen == 3

(* ------------------------- names and values ---------------------------- *)
\* parameter names, listed in lexicographic (str) order
NamePool == <<"A", "B", "C", "D", "E">>

Range(s) == {s[i] : i \in 1..Len(s)}

NameRank == [n \in Range(NamePool) |-> CHOOSE i \in 1..Len(NamePool) : NamePool[i] = n]

\* sorted(parameters.keys()) compares names; tuple(sorted(pair)) compares
\* (name, value) tuples: name first, then value
NameLess(a, b) == NameRank[a] < NameRank[b]

AssignLess(x, y) == NameLess(x[1], y[1]) \/ (x[1] = y[1] /\ x[2] < y[2])

(* --------------------------- the dict views ---------------------------- *)
\* list(parameters.keys())
Keys(params) == [i \in 1..Len(params) |-> params[i].name]

\* parameters[name]
Domain(params, n) == (CHOOSE e \in Range(params) : e.name = n).values

\* sorted(parameters.keys()), as the set of the name pairs that
\* combinations(param_keys, 2) yields: p1 before p2 in sorted order
SortedKeyPairs(params) ==
  {kp \in Range(Keys(params)) \X Range(Keys(params)) : NameLess(kp[1], kp[2])}

(* ------------------------- pair-space builder -------------------------- *)
generate_pairwise_combinations(params) ==
  UNION { { << <<kp[1], v1>>, <<kp[2], v2>> >> :
              v1 \in Range(Domain(params, kp[1])),
              v2 \in Range(Domain(params, kp[2])) } :
          kp \in SortedKeyPairs(params) }

(* -------------------------- candidate space ---------------------------- *)
\* itertools.product(*parameters.values()): the last domain varies fastest;
\* product() of no domains is the one empty tuple
RECURSIVE ProductFrom(_, _)
ProductFrom(params, i) ==
  IF i > Len(params) THEN << <<>> >>
  ELSE LET rest == ProductFrom(params, i + 1)
           vals == params[i].values
           n    == Len(rest)
       IN  [k \in 1..(Len(vals) * n) |->
              <<vals[((k - 1) \div n) + 1]>> \o rest[((k - 1) % n) + 1]]

AllValues(params) == ProductFrom(params, 1)

(* ------------------------ pairs of a test case ------------------------- *)
SortedPair(x, y) == IF AssignLess(y, x) THEN <<y, x>> ELSE <<x, y>>

\* combinations(range(n), 2)
IndexPairs(n) == {ij \in (1..n) \X (1..n) : ij[1] < ij[2]}

\* without the sort: each pair in the key order of the dict
get_pairs_unsorted(test, param_keys) ==
  { << <<param_keys[ij[1]], test[ij[1]]>>, <<param_keys[ij[2]], test[ij[2]]>> >> :
      ij \in IndexPairs(Len(param_keys)) }

\* greedyalgo.get_pairs_in_test
get_pairs_in_test(test, param_keys) ==
  { SortedPair(<<param_keys[ij[1]], test[ij[1]]>>,
               <<param_keys[ij[2]], test[ij[2]]>>) :
      ij \in IndexPairs(Len(param_keys)) }

(* ----------------------------- greedy solver --------------------------- *)
\* while len(covered_pairs) < len(all_pairs)
LoopGuardOff(covered, pairs) == Cardinality(covered) <= Cardinality(pairs)
LoopGuard(covered, pairs) == Cardinality(covered) < Cardinality(pairs)

\* if new_pairs > best_new_pairs
BetterOrEqual(new_pairs, best_new_pairs) == new_pairs >= best_new_pairs
BetterThanNothing(new_pairs, best_new_pairs) ==
  new_pairs > 0 /\ best_new_pairs = 0
Better(new_pairs, best_new_pairs) == new_pairs > best_new_pairs

\* the for loop over all_values: the index of best_test (0 is None) and
\* best_new_pairs after the scan
RECURSIVE ScanFrom(_, _, _, _, _, _)
ScanFrom(all_values, param_keys, covered, i, best_test, best_new_pairs) ==
  IF i > Len(all_values)
  THEN [best_test |-> best_test, best_new_pairs |-> best_new_pairs]
  ELSE LET test_pairs == get_pairs_in_test(all_values[i], param_keys)
           new_pairs  == Cardinality(test_pairs \ covered)
       IN  IF Better(new_pairs, best_new_pairs)
           THEN ScanFrom(all_values, param_keys, covered, i + 1, i, new_pairs)
           ELSE ScanFrom(all_values, param_keys, covered, i + 1,
                         best_test, best_new_pairs)

Scan(params, covered) ==
  ScanFrom(AllValues(params), Keys(params), covered, 1, 0, 0)

\* covered_pairs.update(get_pairs_in_test(best_test, param_keys))
Update(covered, test, param_keys) ==
  covered \cup get_pairs_in_test(test, param_keys)

\* the whole call, for well-shaped dicts: the returned test_suite
RECURSIVE GreedyLoop(_, _, _, _)
GreedyLoop(params, pairs, covered, suite) ==
  IF ~LoopGuard(covered, pairs) THEN suite
  ELSE LET s == Scan(params, covered)
       IN  IF s.best_test = 0 THEN suite
           ELSE LET t == AllValues(params)[s.best_test]
                IN  GreedyLoop(params, pairs, Update(covered, t, Keys(params)),
                               Append(suite, t))

GreedySuite(params) ==
  GreedyLoop(params, generate_pairwise_combinations(params), {}, <<>>)

(* ------------------------------ exact solver --------------------------- *)
\* the candidates of AddMaxEquality(pair_covered[i], [...]): pair[0] and
\* pair[1] both in zip(param_keys, test)
InZip(a, param_keys, test) ==
  \E i \in 1..Len(param_keys) : <<param_keys[i], test[i]>> = a

CoveringCandidates(pair, all_values, param_keys) ==
  {j \in 1..Len(all_values) :
     InZip(pair[1], param_keys, all_values[j])
       /\ InZip(pair[2], param_keys, all_values[j])}

\* the assignments of test_case_vars that satisfy
\* sum(pair_covered.values()) == len(all_pairs): every pair_covered[i], the
\* maximum over its covering candidates, is 1
FeasibleSelections(params) ==
  LET all_values == AllValues(params)
      param_keys == Keys(params)
      covering   == {CoveringCandidates(p, all_values, param_keys) :
                       p \in generate_pairwise_combinations(params)}
  IN  {S \in SUBSET (1..Len(all_values)) : \A C \in covering : C \cap S # {}}

\* Minimize(sum(test_case_vars)), status OPTIMAL
AnyFeasibleSelection(params) == FeasibleSelections(params)
OptimalSelections(params) ==
  LET F    == FeasibleSelections(params)
      best == CHOOSE n \in {Cardinality(S) : S \in F} :
                \A m \in {Cardinality(S) : S \in F} : n <= m
  IN  {S \in F : Cardinality(S) = best}

\* [all_values[i] for i in range(len(all_values)) if solver.Value(...)]
RECURSIVE SelectedFrom(_, _, _)
SelectedFrom(all_values, S, i) ==
  IF i > Len(all_values) THEN <<>>
  ELSE (IF i \in S THEN <<all_values[i]>> ELSE <<>>)
         \o SelectedFrom(all_values, S, i + 1)

SuiteOf(params, S) == SelectedFrom(AllValues(params), S, 1)

(* --------------------------- coverage analyzer ------------------------- *)
\* algo.count_unique_pairs, lines 64-68: the sorted combinations of
\* zip(parameters.keys(), test) that are in all_pairs
algo_test_pairs_unsorted(test, pairs, param_keys) ==
  { << <<param_keys[ij[1]], test[ij[1]]>>, <<param_keys[ij[2]], test[ij[2]]>> >> :
      ij \in IndexPairs(Len(param_keys)) } \cap pairs

algo_test_pairs(test, pairs, param_keys) ==
  { SortedPair(<<param_keys[ij[1]], test[ij[1]]>>,
               <<param_keys[ij[2]], test[ij[2]]>>) :
      ij \in IndexPairs(Len(param_keys)) } \cap pairs

\* new_unique = len(covered_pairs) - current_covered
TotalCount(covered_after, current_covered, test_pairs) == Cardinality(test_pairs)
NewUnique(covered_after, current_covered, test_pairs) ==
  Cardinality(covered_after) - current_covered

RECURSIVE algo_count_from(_, _, _, _, _)
algo_count_from(test_cases, pairs, param_keys, k, acc) ==
  IF k > Len(test_cases) THEN acc
  ELSE LET current_covered == Cardinality(acc.covered_pairs)
           test_pairs == algo_test_pairs(test_cases[k], pairs, param_keys)
           covered    == acc.covered_pairs \cup test_pairs
       IN  algo_count_from(test_cases, pairs, param_keys, k + 1,
             [covered_pairs     |-> covered,
              test_case_pairs   |-> Append(acc.test_case_pairs, test_pairs),
              new_unique_counts |-> Append(acc.new_unique_counts,
                 NewUnique(covered, current_covered, test_pairs))])

EmptyAnalysis ==
  [covered_pairs |-> {}, test_case_pairs |-> <<>>, new_unique_counts |-> <<>>]

algo_count_unique_pairs(test_cases, pairs, params) ==
  algo_count_from(test_cases, pairs, Keys(params), 1, EmptyAnalysis)

RECURSIVE greedy_count_from(_, _, _, _)
greedy_count_from(test_cases, param_keys, k, acc) ==
  IF k > Len(test_cases) THEN acc
  ELSE LET current_covered == Cardinality(acc.covered_pairs)
           test_pairs == get_pairs_in_test(test_cases[k], param_keys)
           covered    == acc.covered_pairs \cup test_pairs
       IN  greedy_count_from(test_cases, param_keys, k + 1,
             [covered_pairs     |-> covered,
              test_case_pairs   |-> Append(acc.test_case_pairs, test_pairs),
              new_unique_counts |-> Append(acc.new_unique_counts,
                 NewUnique(covered, current_covered, test_pairs))])

greedy_count_unique_pairs(test_cases, pairs, params) ==
  greedy_count_from(test_cases, Keys(params), 1, EmptyAnalysis)

(* ------------------------------- state --------------------------------- *)
VARIABLES
  parameters,       \* the dict handed to the core call
  shape,            \* "dict" | "dict_nonlist" (some domain is a tuple) | "not_dict"
  algorithm,        \* the core function called: "none", "Greedy", "CP-SAT", "builder", "analyzer"
  pc,               \* "start", "greedy_loop", "returned", "raised", "done"
  all_pairs,        \* the pair universe the call built
  covered_pairs,    \* greedy: covered_pairs
  test_suite,       \* greedy: test_suite
  iters,            \* greedy: executions of the while body so far
  last_iter,        \* greedy: what the last execution of the while body did
  status,           \* exact: the solver status
  optimal_tests,    \* the returned suite: None, or Some(suite)
  error,            \* the exception raised, "" when none
  test_cases,       \* the suite handed to count_unique_pairs
  analysis,         \* what count_unique_pairs returned
  shown,            \* what main displays for the result
  session_parameters, \* st.session_state.parameters
  session_algorithm,  \* st.session_state.algorithm
  clear_fields,       \* st.session_state.clear_fields ("absent" before it is set)
  last_event          \* the outcome of the last handler run of main

coreVars == <<parameters, shape, algorithm, pc, all_pairs, covered_pairs,
              test_suite, iters, last_iter, status, optimal_tests, error,
              test_cases, analysis, shown>>
uiVars == <<session_parameters, session_algorithm, clear_fields, last_event>>
vars == <<coreVars, uiVars>>

None == <<>>
Some(x) == <<x>>

NoIter == [covered_before |-> {}, best_test |-> 0, best_new_pairs |-> 0]
NoEvent == [op |-> "none", msg |-> "", solver |-> "none"]

(* ------------------------------ the inputs ----------------------------- *)
ParamNames == {NamePool[i] : i \in 1..MaxParams}

\* a domain of k unique value labels, in list order
DomainOf(k) == [i \in 1..k |-> i]

Entries == [name : ParamNames, values : {DomainOf(k) : k \in 0..MaxDom}]

\* dicts: the keys are unique, in any insertion order
ParamMaps ==
  {m \in UNION {[1..n -> Entries] : n \in 0..MaxParams} :
     \A i, j \in 1..Len(m) : i # j => m[i].name # m[j].name}

\* the dicts whose candidate space is within the bound
InputMaps == {m \in ParamMaps : Len(AllValues(m)) <= MaxCandidates}

Shapes == {"dict", "dict_nonlist", "not_dict"}

InitCoreRest ==
  /\ algorithm = "none"
  /\ pc = "start"
  /\ all_pairs = {}
  /\ covered_pairs = {}
  /\ test_suite = <<>>
  /\ iters = 0
  /\ last_iter = NoIter
  /\ status = ""
  /\ optimal_tests = None
  /\ error = ""
  /\ analysis = EmptyAnalysis
  /\ shown = ""

UiIdle ==
  /\ session_parameters = <<>>
  /\ session_algorithm = "CP-SAT"
  /\ clear_fields = "absent"
  /\ last_event = NoEvent

Init ==
  /\ parameters \in InputMaps
  /\ shape \in Shapes
  /\ shape = "not_dict" => parameters = <<>>
  /\ shape = "dict_nonlist" => Len(parameters) \in 1..MaxNonListParams
  /\ test_cases = <<>>
  /\ InitCoreRest
  /\ UiIdle

(* ------------------- greedyalgo.find_minimum_test_suite ---------------- *)
\* lines 23-28; parameters.keys() of something that is no dict raises
GreedyCall ==
  /\ pc = "start"
  /\ algorithm' = "Greedy"
  /\ IF shape = "not_dict"
     THEN /\ pc' = "raised"
          /\ error' = "AttributeError"
          /\ UNCHANGED <<all_pairs, covered_pairs, test_suite>>
     ELSE /\ pc' = "greedy_loop"
          /\ all_pairs' = generate_pairwise_combinations(parameters)
          /\ covered_pairs' = {}
          /\ test_suite' = <<>>
          /\ error' = ""
  /\ UNCHANGED <<parameters, shape, iters, last_iter, status, optimal_tests,
                 test_cases, analysis, shown, uiVars>>

\* lines 30-46, an iteration that appends best_test
GreedyAppend ==
  /\ pc = "greedy_loop"
  /\ LoopGuard(covered_pairs, all_pairs)
  /\ LET all_values == AllValues(parameters)
         s == ScanFrom(all_values, Keys(parameters), covered_pairs, 1, 0, 0)
     IN  /\ s.best_test # 0
         /\ test_suite' = Append(test_suite, all_values[s.best_test])
         /\ covered_pairs' = Update(covered_pairs, all_values[s.best_test],
                                    Keys(parameters))
         /\ last_iter' = [covered_before |-> covered_pairs,
                          best_test |-> s.best_test,
                          best_new_pairs |-> s.best_new_pairs]
  /\ iters' = iters + 1
  /\ UNCHANGED <<parameters, shape, algorithm, pc, all_pairs, status,
                 optimal_tests, error, test_cases, analysis, shown, uiVars>>

\* lines 30-43 and 48, the iteration that finds no best_test and breaks
GreedyBreak ==
  /\ pc = "greedy_loop"
  /\ LoopGuard(covered_pairs, all_pairs)
  /\ Scan(parameters, covered_pairs).best_test = 0
  /\ last_iter' = [covered_before |-> covered_pairs, best_test |-> 0,
                   best_new_pairs |-> 0]
  /\ iters' = iters + 1
  /\ pc' = "returned"
  /\ status' = "break"
  /\ optimal_tests' = Some(test_suite)
  /\ UNCHANGED <<parameters, shape, algorithm, all_pairs, covered_pairs,
                 test_suite, error, test_cases, analysis, shown, uiVars>>

\* lines 30 and 48, the loop condition fails
GreedyReturn ==
  /\ pc = "greedy_loop"
  /\ ~LoopGuard(covered_pairs, all_pairs)
  /\ pc' = "returned"
  /\ status' = "loop_end"
  /\ optimal_tests' = Some(test_suite)
  /\ UNCHANGED <<parameters, shape, algorithm, all_pairs, covered_pairs,
                 test_suite, iters, last_iter, error, test_cases, analysis,
                 shown, uiVars>>

(* --------------------- algo.find_minimum_test_suite -------------------- *)
\* lines 18-23
ExactInputError(sh, params) ==
  IF sh = "not_dict" THEN "TypeError"
  ELSE IF Len(params) = 0 THEN "ValueError"
  ELSE IF sh = "dict_nonlist" THEN "TypeError"
  ELSE ""

ExactRaise ==
  /\ pc = "start"
  /\ ExactInputError(shape, parameters) # ""
  /\ algorithm' = "CP-SAT"
  /\ pc' = "raised"
  /\ error' = ExactInputError(shape, parameters)
  /\ UNCHANGED <<parameters, shape, all_pairs, covered_pairs, test_suite,
                 iters, last_iter, status, optimal_tests, test_cases,
                 analysis, shown, uiVars>>

ExactSolved(st, selections) ==
  /\ pc = "start"
  /\ ExactInputError(shape, parameters) = ""
  /\ \E S \in selections :
       optimal_tests' = Some(SuiteOf(parameters, S))
  /\ algorithm' = "CP-SAT"
  /\ pc' = "returned"
  /\ status' = st
  /\ all_pairs' = generate_pairwise_combinations(parameters)
  /\ UNCHANGED <<parameters, shape, covered_pairs, test_suite, iters,
                 last_iter, error, test_cases, analysis, shown, uiVars>>

\* lines 47-49
ExactOptimal == ExactSolved("OPTIMAL", OptimalSelections(parameters))

\* lines 50-53: the time budget ended the search at some feasible selection
ExactFeasible == ExactSolved("FEASIBLE", AnyFeasibleSelection(parameters))

\* lines 54-55: infeasible, or the time budget ended the search with nothing
ExactNoSolution ==
  /\ pc = "start"
  /\ ExactInputError(shape, parameters) = ""
  /\ algorithm' = "CP-SAT"
  /\ pc' = "returned"
  /\ status' = IF FeasibleSelections(parameters) = {} THEN "INFEASIBLE"
               ELSE "UNKNOWN"
  /\ optimal_tests' = None
  /\ all_pairs' = {}
  /\ UNCHANGED <<parameters, shape, covered_pairs, test_suite, iters,
                 last_iter, error, test_cases, analysis, shown, uiVars>>

(* ------------------- generate_pairwise_combinations -------------------- *)
\* called on its own: lines 5-15 of either module
BuilderCall ==
  /\ pc = "start"
  /\ algorithm' = "builder"
  /\ IF shape = "not_dict"
     THEN /\ pc' = "raised"
          /\ error' = "AttributeError"
          /\ UNCHANGED all_pairs
     ELSE /\ pc' = "done"
          /\ all_pairs' = generate_pairwise_combinations(parameters)
          /\ error' = ""
  /\ UNCHANGED <<parameters, shape, covered_pairs, test_suite, iters,
                 last_iter, status, optimal_tests, test_cases, analysis,
                 shown, uiVars>>

(* ----------------------- main: showing the result ---------------------- *)
\* if optimal_tests: (None and the empty list are both falsy)
TruthyNotNone(o) == o # None
Truthy(o) == o # None /\ Len(o[1]) > 0

\* main.py lines 223-232 and 234-267
Report ==
  /\ pc = "returned"
  /\ algorithm \in {"Greedy", "CP-SAT"}
  /\ pc' = "done"
  /\ IF Truthy(optimal_tests)
     THEN /\ test_cases' = optimal_tests[1]
          /\ analysis' =
               IF algorithm = "CP-SAT"
               THEN algo_count_unique_pairs(optimal_tests[1], all_pairs, parameters)
               ELSE greedy_count_unique_pairs(optimal_tests[1], all_pairs, parameters)
          /\ shown' = "Test suite generated successfully!"
     ELSE /\ shown' = "No optimal test suite found."
          /\ UNCHANGED <<test_cases, analysis>>
  /\ UNCHANGED <<parameters, shape, algorithm, all_pairs, covered_pairs,
                 test_suite, iters, last_iter, status, optimal_tests, error,
                 uiVars>>

Next ==
  \/ GreedyCall
  \/ GreedyAppend
  \/ GreedyBreak
  \/ GreedyReturn
  \/ ExactRaise
  \/ ExactOptimal
  \/ ExactFeasible
  \/ ExactNoSolution
  \/ BuilderCall
  \/ Report

Spec == Init /\ [][Next]_vars

(* ------------- count_unique_pairs called on any ordered suite ---------- *)
\* the ordered suites of candidates
SuitesOf(params) ==
  UNION {[1..n -> Range(AllValues(params))] : n \in 0..MaxSuiteLen}

InitAnalyze ==
  /\ parameters \in
       {m \in ParamMaps : Len(AllValues(m)) <= MaxAnalyzedCandidates}
  /\ shape = "dict"
  /\ test_cases \in SuitesOf(parameters)
  /\ algorithm = "none"
  /\ pc = "start"
  /\ all_pairs = generate_pairwise_combinations(parameters)
  /\ covered_pairs = {}
  /\ test_suite = <<>>
  /\ iters = 0
  /\ last_iter = NoIter
  /\ status = ""
  /\ optimal_tests = None
  /\ error = ""
  /\ analysis = EmptyAnalysis
  /\ shown = ""
  /\ UiIdle

Analyze(module, result) ==
  /\ pc = "start"
  /\ pc' = "done"
  /\ algorithm' = module
  /\ analysis' = result
  /\ UNCHANGED <<parameters, shape, all_pairs, covered_pairs, test_suite,
                 iters, last_iter, status, optimal_tests, error, test_cases,
                 shown, uiVars>>

AnalyzeAlgo ==
  Analyze("algo", algo_count_unique_pairs(test_cases, all_pairs, parameters))

AnalyzeGreedy ==
  Analyze("greedyalgo",
          greedy_count_unique_pairs(test_cases, all_pairs, parameters))

NextAnalyze == AnalyzeAlgo \/ AnalyzeGreedy

SpecAnalyze == InitAnalyze /\ [][NextAnalyze]_vars

(* ---------------------- main.py: the session handlers ------------------ *)
\* validate_parameter_values, lines 44-45; validate_parameter_name, line 34
MAX_VALUE_LENGTH == 100
MAX_VALUES == 50
MAX_NAME_LENGTH == 50

\* initialize_session_state, lines 8-14
DefaultParameters ==
  << [name |-> "Display Mode",
      values |-> <<"Full Graph", "Text Only", "Limited-Bandwidth">>],
     [name |-> "Language",
      values |-> <<"English", "French", "Spanish", "Turkish">>],
     [name |-> "Fonts",
      values |-> <<"Minimal", "Standard", "Document-loaded">>],
     [name |-> "Color",
      values |-> <<"Monochrome", "Colormap", "16-bit", "True Color">>],
     [name |-> "Screen Size",
      values |-> <<"Hand-held", "laptop", "fullsize">>] >>

\* what the user may type as a parameter name; the last is 51 characters
LongName == "nnnnnnnnnnnnnnnnnnnnnnnnnnnnnnnnnnnnnnnnnnnnnnnnnnn"
NameInputs == {"", " ", "OS", " OS ", "Color", "a!b", LongName}

\* what the user may type between two commas of a values field; the last
\* is 101 characters
LongValue ==
  "vvvvvvvvvvvvvvvvvvvvvvvvvvvvvvvvvvvvvvvvvvvvvvvvvvvvvvvvvvvvvvvvvvvvvvvvvvvvvvvvvvvvvvvvvvvvvvvvvvvvv"
TokenInputs == {"", " x", "y", LongValue}

\* tokens typed into a values field
MaxTokens == 2

\* values.split(','): a text is given as its comma-separated parts
ValueTexts == UNION {[1..n -> TokenInputs] : n \in 1..MaxTokens}

\* str.strip() on the texts above
Strip(t) ==
  CASE t = " " -> ""
    [] t = " OS " -> "OS"
    [] t = " x" -> "x"
    [] OTHER -> t

\* all(c.isalnum() or c in [' ', '_', '-'] for c in name) on the texts above
NameCharsOk(name) == name # "a!b"

HasKey(params, n) == \E i \in 1..Len(params) : params[i].name = n

\* validate_parameter_name, lines 24-40 (msg: "" or the st.error to show)
validate_parameter_name(name, params) ==
  IF name = "" \/ Strip(name) = ""
  THEN [ok |-> FALSE, msg |-> "error"]
  ELSE IF ~NameCharsOk(name)
  THEN [ok |-> FALSE, msg |-> "error"]
  ELSE IF Len(name) > MAX_NAME_LENGTH
  THEN [ok |-> FALSE, msg |-> "error"]
  ELSE IF HasKey(params, Strip(name))
  THEN [ok |-> FALSE, msg |-> "error"]
  ELSE [ok |-> TRUE, msg |-> ""]

NonEmpty(t) == t # ""
NoDuplicates(seq) == \A i, j \in 1..Len(seq) : i # j => seq[i] # seq[j]

\* line 77: if len(values_list) < 2
TooFew(values_list) == Len(values_list) < 2

\* validate_parameter_values, lines 42-80; text is values.split(','), msg
\* is "" or the st.error to show
validate_parameter_values(text, current_param, params) ==
  LET values_list == SelectSeq([i \in 1..Len(text) |-> Strip(text[i])], NonEmpty)
      all_other_values ==
        UNION {Range(params[i].values) :
                 i \in {k \in 1..Len(params) : params[k].name # current_param}}
      Fail == [ok |-> FALSE, values_list |-> <<>>, msg |-> "error"]
  IN  IF Len(text) = 1 /\ Strip(text[1]) = ""
      THEN Fail
      ELSE IF Len(values_list) > MAX_VALUES
      THEN Fail
      ELSE IF \E i \in 1..Len(values_list) : Len(values_list[i]) > MAX_VALUE_LENGTH
      THEN Fail
      ELSE IF ~NoDuplicates(values_list)
      THEN Fail
      ELSE IF Range(values_list) \cap all_other_values # {}
      THEN Fail
      ELSE IF TooFew(values_list)
      THEN Fail
      ELSE [ok |-> TRUE, values_list |-> values_list, msg |-> ""]

\* no current parameter: current_param=None
NoParam == "<None>"

InitUI ==
  /\ session_parameters = DefaultParameters
  /\ session_algorithm = "CP-SAT"
  /\ clear_fields = "absent"
  /\ last_event = NoEvent
  /\ parameters = <<>>
  /\ shape = "dict"
  /\ test_cases = <<>>
  /\ InitCoreRest

\* msg is the kind of message shown: st.error, st.warning or st.success
Event(op, msg) == [op |-> op, msg |-> msg, solver |-> "none"]

\* the st.radio of lines 111-116
SelectAlgorithm ==
  /\ \E a \in {"CP-SAT", "Greedy"} :
       /\ a # session_algorithm
       /\ session_algorithm' = a
  /\ last_event' = Event("select", "")
  /\ UNCHANGED <<session_parameters, clear_fields, coreVars>>

\* lines 135-147; st.rerun() runs lines 88-93, which reset clear_fields
AddParameter ==
  /\ \E new_param \in NameInputs :
       LET n == validate_parameter_name(new_param, session_parameters)
       IN  IF ~n.ok
           THEN /\ last_event' = Event("add", n.msg)
                /\ UNCHANGED <<session_parameters, clear_fields>>
           ELSE \E new_values \in ValueTexts :
                  LET v == validate_parameter_values(new_values, NoParam,
                                                     session_parameters)
                  IN  IF ~v.ok
                      THEN /\ last_event' = Event("add", v.msg)
                           /\ UNCHANGED <<session_parameters, clear_fields>>
                      ELSE /\ session_parameters' =
                                Append(session_parameters,
                                       [name |-> Strip(new_param),
                                        values |-> v.values_list])
                           /\ clear_fields' = "False"
                           /\ last_event' = Event("add", "success")
  /\ UNCHANGED <<session_algorithm, coreVars>>

\* lines 149-153
ClearAll ==
  /\ session_parameters' = <<>>
  /\ clear_fields' = "False"
  /\ last_event' = Event("clear", "success")
  /\ UNCHANGED <<session_algorithm, coreVars>>

\* lines 179-185
UpdateParameter ==
  /\ \E i \in 1..Len(session_parameters), values \in ValueTexts :
       LET param == session_parameters[i].name
           v == validate_parameter_values(values, param, session_parameters)
       IN  IF ~v.ok
           THEN /\ last_event' = Event("update", v.msg)
                /\ UNCHANGED session_parameters
           ELSE /\ session_parameters' =
                     [session_parameters EXCEPT ![i].values = v.values_list]
                /\ last_event' = Event("update", "success")
  /\ UNCHANGED <<session_algorithm, clear_fields, coreVars>>

\* del st.session_state.parameters[param]
Without(params, i) ==
  [k \in 1..(Len(params) - 1) |-> IF k < i THEN params[k] ELSE params[k + 1]]

\* lines 188-194
DeleteParameter ==
  /\ \E i \in 1..Len(session_parameters) :
       /\ session_parameters' = Without(session_parameters, i)
       /\ last_event' =
            Event("delete",
                  IF Len(session_parameters) - 1 = 1
                  THEN "warning"
                  ELSE "success")
  /\ UNCHANGED <<session_algorithm, clear_fields, coreVars>>

\* line 209: if len(values) < 2
InvalidParams(params) == {i \in 1..Len(params) : Len(params[i].values) < 2}

\* line 216: if len(st.session_state.parameters) < 2
TooFewParametersOff(params) == Len(params) < 1
TooFewParameters(params) == Len(params) < 2

\* lines 205-232: the checks, then the call of the selected solver
Generate ==
  /\ last_event' =
       IF InvalidParams(session_parameters) # {}
       THEN Event("generate", "error")
       ELSE IF TooFewParameters(session_parameters)
       THEN Event("generate", "error")
       ELSE [op |-> "generate", msg |-> "", solver |-> session_algorithm]
  /\ UNCHANGED <<session_parameters, session_algorithm, clear_fields, coreVars>>

NextUI ==
  \/ SelectAlgorithm
  \/ AddParameter
  \/ ClearAll
  \/ UpdateParameter
  \/ DeleteParameter
  \/ Generate

SpecUI == InitUI /\ [][NextUI]_vars

(* ======================= the properties checked ======================== *)
Universe == generate_pairwise_combinations(parameters)

\* the candidate realises the pair: both assignments are its own
Realises(test, param_keys, pair) ==
  /\ \E i \in 1..Len(param_keys) : <<param_keys[i], test[i]>> = pair[1]
  /\ \E j \in 1..Len(param_keys) : <<param_keys[j], test[j]>> = pair[2]

\* every pair of the universe is realised by some test case of the suite
FullyCovers(suite, params) ==
  \A p \in generate_pairwise_combinations(params) :
    \E k \in 1..Len(suite) : Realises(suite[k], Keys(params), p)

\* the universe pairs the candidate realises that are not in covered
NewlyCovered(test, params, covered) ==
  {p \in generate_pairwise_combinations(params) \ covered :
     Realises(test, Keys(params), p)}

RECURSIVE SumSeq(_)
SumSeq(seq) == IF seq = <<>> THEN 0 ELSE Head(seq) + SumSeq(Tail(seq))

KeysSorted(params) ==
  \A i, j \in 1..Len(params) : i < j => NameLess(params[i].name, params[j].name)

WellFormed(params) ==
  Len(params) >= 2 /\ \A i \in 1..Len(params) : Len(params[i].values) >= 1

GreedyEnded == algorithm = "Greedy" /\ pc \in {"returned", "done"}

\* C1: on a map of at least 2 parameters with non-empty domains the greedy
\* loop never breaks on best_test None; once it has ended, covered_pairs
\* is the pair universe and every pair of the universe is realised by a
\* test case of the returned suite.
C1_GreedyCoversEveryPair ==
  (algorithm = "Greedy" /\ shape # "not_dict" /\ WellFormed(parameters)) =>
    /\ status # "break"
    /\ GreedyEnded =>
         /\ covered_pairs = Universe
         /\ all_pairs = Universe
         /\ FullyCovers(optimal_tests[1], parameters)

C1_Witness ==
  /\ GreedyEnded
  /\ Len(parameters) = 3
  /\ \A i \in 1..3 : Len(parameters[i].values) = 2
  /\ ~KeysSorted(parameters)
  /\ Len(optimal_tests[1]) >= 4

\* C2: for a suite the exact solver returns (OPTIMAL or FEASIBLE) and for a
\* greedy suite that covers every pair, the union of the per-test-case pair
\* sets of count_unique_pairs is the pair universe, each pair in the
\* universe's orientation, whatever the insertion order of the names.
C2_AnalyzerUnionIsUniverse ==
  /\ (algorithm = "CP-SAT" /\ pc \in {"returned", "done"}
        /\ status \in {"OPTIMAL", "FEASIBLE"}) =>
       /\ optimal_tests # None
       /\ UNION Range(algo_count_unique_pairs(optimal_tests[1], all_pairs,
                                              parameters).test_case_pairs)
            = Universe
  /\ (GreedyEnded /\ FullyCovers(optimal_tests[1], parameters)) =>
       UNION Range(greedy_count_unique_pairs(optimal_tests[1], all_pairs,
                                             parameters).test_case_pairs)
         = Universe

C2_Witness ==
  /\ algorithm = "CP-SAT"
  /\ pc = "done"
  /\ status = "FEASIBLE"
  /\ Len(parameters) = 3
  /\ ~KeysSorted(parameters)
  /\ Len(optimal_tests[1]) >= 5
  /\ UNION Range(analysis.test_case_pairs) = Universe

\* C3: when the exact solver ends OPTIMAL and the greedy suite for the same
\* map covers every pair, the exact suite covers every pair, no set of
\* candidates that covers every pair is smaller, and so the exact suite is
\* no longer than the greedy suite.
C3_ExactNoLargerThanGreedy ==
  (algorithm = "CP-SAT" /\ pc \in {"returned", "done"} /\ status = "OPTIMAL"
     /\ FullyCovers(GreedySuite(parameters), parameters)) =>
    /\ FullyCovers(optimal_tests[1], parameters)
    /\ \A T \in SUBSET Range(AllValues(parameters)) :
         (\A p \in Universe : \E t \in T : Realises(t, Keys(parameters), p))
           => Len(optimal_tests[1]) <= Cardinality(T)
    /\ Len(optimal_tests[1]) <= Len(GreedySuite(parameters))

C3_Witness ==
  /\ algorithm = "CP-SAT"
  /\ status = "OPTIMAL"
  /\ Len(parameters) = 3
  /\ \A i \in 1..3 : Len(parameters[i].values) = 2
  /\ Len(optimal_tests[1]) = 4
  /\ Len(GreedySuite(parameters)) >= 4

\* C4: the greedy while body runs at most as many times as the universe has
\* pairs, on every map (empty domains, one parameter and no parameter
\* included); a run of the body either appends a candidate that realises a
\* pair not covered before, or leaves the loop.
C4_GreedyIterationsBounded ==
  algorithm = "Greedy" =>
    /\ iters <= Cardinality(Universe)
    /\ (iters > 0 /\ last_iter.best_test # 0) =>
         /\ Len(test_suite) = iters
         /\ NewlyCovered(test_suite[Len(test_suite)], parameters,
                         last_iter.covered_before) # {}
         /\ Cardinality(covered_pairs)
              > Cardinality(last_iter.covered_before)
    /\ (iters > 0 /\ last_iter.best_test = 0) => pc \in {"returned", "done"}

C4_Witness ==
  /\ algorithm = "Greedy"
  /\ pc = "returned"
  /\ status = "break"
  /\ iters = 1
  /\ Len(parameters) = 3
  /\ \E i \in 1..3 : Len(parameters[i].values) = 0

\* C5: either solver and the pair-space builder reject a parameter map that
\* is no dict, is empty or has a domain that is no list: the call raises,
\* and has built no pair universe and returned no suite.
C5_MalformedInputRaises ==
  (algorithm \in {"Greedy", "CP-SAT", "builder"}
     /\ (shape # "dict" \/ Len(parameters) = 0)) =>
    /\ pc = "raised"
    /\ error # ""
    /\ optimal_tests = None

\* C6: when the greedy loop breaks on best_test None with a pair of the
\* universe uncovered, the caller gets the empty suite for a non-empty
\* universe, which no run that covers every pair returns, and main shows
\* "No optimal test suite found."; a suite shown as generated covers every
\* pair.
C6_BreakIsSurfaced ==
  /\ (GreedyEnded /\ status = "break") =>
       /\ ~FullyCovers(optimal_tests[1], parameters)
       /\ optimal_tests[1] = <<>>
       /\ all_pairs # {}
       /\ pc = "done" => shown = "No optimal test suite found."
  /\ (GreedyEnded /\ status # "break") =>
       /\ FullyCovers(optimal_tests[1], parameters)
       /\ ~(optimal_tests[1] = <<>> /\ all_pairs # {})
  /\ (algorithm = "Greedy" /\ shown = "Test suite generated successfully!") =>
       /\ FullyCovers(test_cases, parameters)
       /\ test_cases = optimal_tests[1]

C6_Witness ==
  /\ algorithm = "Greedy"
  /\ pc = "done"
  /\ status = "break"
  /\ Cardinality(all_pairs) >= 4
  /\ shown = "No optimal test suite found."

\* C7: after any sequence of Add Parameter, Update, Delete and Clear All,
\* Generate calls a solver only if the session has at least 2 parameters and
\* every parameter has at least 2 values; otherwise it shows an error and
\* calls no solver.
C7_GenerateCallsSolverOnlyWhenValid ==
  LET valid ==
        /\ Len(session_parameters) >= 2
        /\ \A i \in 1..Len(session_parameters) :
             Len(session_parameters[i].values) >= 2
  IN  /\ last_event.solver # "none" =>
           /\ last_event.op = "generate"
           /\ valid
           /\ last_event.solver = session_algorithm
      /\ (last_event.op = "generate" /\ ~valid) =>
           /\ last_event.solver = "none"
           /\ last_event.msg = "error"

C7_Witness ==
  /\ last_event.op = "generate"
  /\ last_event.solver = "Greedy"
  /\ Len(session_parameters) = 2
  /\ session_parameters[1].name = "Color"
  /\ session_parameters[2] = [name |-> "OS", values |-> <<"y", "x">>]

\* C8: for any ordered suite, the k-th count of count_unique_pairs (of
\* either module) is the number of universe pairs realised by the k-th test
\* case and by no earlier one; the counts are non-negative, the first is the
\* size of the first test case's pair set, and they sum to the size of the
\* returned covered set.
C8_MarginalCounts ==
  pc = "done" =>
    LET counts == analysis.new_unique_counts
        keys   == Keys(parameters)
    IN  /\ Len(counts) = Len(test_cases)
        /\ Len(analysis.test_case_pairs) = Len(test_cases)
        /\ \A k \in 1..Len(test_cases) :
             /\ counts[k] \in Nat
             /\ counts[k] =
                  Cardinality({p \in Universe :
                     /\ Realises(test_cases[k], keys, p)
                     /\ \A j \in 1..(k - 1) : ~Realises(test_cases[j], keys, p)})
        /\ Len(test_cases) >= 1 =>
             counts[1] = Cardinality(analysis.test_case_pairs[1])
        /\ SumSeq(counts) = Cardinality(analysis.covered_pairs)

C8_Witness ==
  /\ pc = "done"
  /\ algorithm = "greedyalgo"
  /\ Len(parameters) = 3
  /\ Len(test_cases) = 2
  /\ analysis.new_unique_counts[1] = 3
  /\ analysis.new_unique_counts[2] \in 1..2

\* C9: the candidate an iteration of the greedy loop appends is the first,
\* in Cartesian-product order of the domains in insertion order, of the
\* candidates that newly cover the most uncovered pairs; the returned suite
\* is the one a second run on the same map returns.
C9_FirstBestCandidate ==
  /\ (algorithm = "Greedy" /\ iters > 0 /\ last_iter.best_test # 0) =>
       LET all_values == AllValues(parameters)
           new(i) == Cardinality(NewlyCovered(all_values[i], parameters,
                                              last_iter.covered_before))
           best == last_iter.best_test
       IN  /\ test_suite[Len(test_suite)] = all_values[best]
           /\ last_iter.best_new_pairs = new(best)
           /\ \A j \in 1..Len(all_values) :
                /\ new(j) <= new(best)
                /\ j < best => new(j) < new(best)
  /\ GreedyEnded => optimal_tests[1] = GreedySuite(parameters)

C9_Witness ==
  /\ algorithm = "Greedy"
  /\ iters >= 2
  /\ last_iter.best_test # 0
  /\ \E j \in (last_iter.best_test + 1)..Len(AllValues(parameters)) :
       Cardinality(NewlyCovered(AllValues(parameters)[j], parameters,
                                last_iter.covered_before))
         = last_iter.best_new_pairs

\* C10: the marginal counts count_unique_pairs reports for the greedy suite
\* are all at least 1 and never increase along the suite, and the greedy
\* suite holds no test case twice.
C10_GreedyCountsNonIncreasing ==
  algorithm = "Greedy" =>
    LET counts == greedy_count_unique_pairs(test_suite, all_pairs,
                                            parameters).new_unique_counts
    IN  /\ \A k \in 1..Len(counts) : counts[k] >= 1
        /\ \A k \in 1..(Len(counts) - 1) : counts[k + 1] <= counts[k]
        /\ NoDuplicates(test_suite)
        /\ pc = "done" /\ Truthy(optimal_tests) =>
             analysis.new_unique_counts = counts

C10_Witness ==
  /\ algorithm = "Greedy"
  /\ pc = "done"
  /\ Len(analysis.new_unique_counts) >= 4
  /\ analysis.new_unique_counts[1] = 3
  /\ analysis.new_unique_counts[Len(analysis.new_unique_counts)] = 1

====
